---- MODULE Spec2Model ----
(***************************************************************************)
(* Model of the inventory/vision application: the Google Sheets inventory  *)
(* repository, the multi-repository fan-out, the detail window and the     *)
(* detection confirmation policy of the controller.                        *)
(*                                                                         *)
(* Text is modelled as a sequence of tokens: the token " " is one          *)
(* whitespace character, every other token is a chunk of text that neither *)
(* starts nor ends with whitespace.  A numeric sheet cell is Num(n), a     *)
(* text cell that int() rejects is Txt(tokens).                            *)
(***************************************************************************)
EXTENDS Integers, Sequences, FiniteSets, TLC

VARIABLES
    ws,         \* BaseGoogleSheetRepo._ws: the rows get_all_values() returns
    wsBefore,   \* the rows before the last repository operation
    lastOp,     \* the last repository operation and its outcome
    prevOp,     \* the repository operation before it
    nops,       \* number of operations performed so far
    repos,      \* MultiInventoryRepo._repos: the sheet of every inner repository
    reposBefore,\* _repos before the last MultiInventoryRepo operation
    callLog,    \* calls the last MultiInventoryRepo operation made on inner repositories
    multiOut,   \* the last MultiInventoryRepo operation and its outcome
    mops,       \* number of MultiInventoryRepo operations performed so far
    pc,         \* position of Application: start, loaded, validated, built, running, failed
    error,      \* the exception that ended Application.__init__, or None
    envFile,    \* the .env file: None when missing, else variable name -> raw text
    settings,   \* SettingsManager._settings, or None
    ctl,        \* the controller's confirmation policy, or None
    hist,       \* the last observations received since the start or the last resume()
    lastCall,   \* the last observation handled, what it emitted, the policy before it
    ui,         \* TkDetailUI: _on_retake, _current_component_name, window visibility
    uiOut,      \* the last TkDetailUI operation: callbacks invoked, values written
    smLog,      \* outcome of every SettingsManager.load_from_env() so far
    smOut       \* the last SettingsManager operation and its outcome

sheetVars == <<ws, wsBefore, lastOp, prevOp, nops>>
multiVars == <<repos, reposBefore, callLog, multiOut, mops>>

appVars == <<pc, error, envFile, settings, ctl, hist, lastCall, ui, uiOut>>
settingsVars == <<smLog, smOut>>

vars == <<ws, wsBefore, lastOp, prevOp, nops,
          repos, reposBefore, callLog, multiOut, mops,
          pc, error, envFile, settings, ctl, hist, lastCall, ui, uiOut,
          smLog, smOut>>

----------------------------------------------------------------------------
(* Bounds *)
MaxInitRows == 2    \* rows of the sheet found when the repository is constructed
MaxOps == 2         \* repository operations in one behaviour
MaxQty == 1         \* largest quantity written
MaxRepos == 2       \* inner repositories of a MultiInventoryRepo
MaxMultiOps == 2    \* MultiInventoryRepo operations in one behaviour
MaxConfirmFrames == 3   \* largest CONFIRM_FRAMES written in .env
MaxLoads == 3       \* SettingsManager.load_from_env() calls in one behaviour
MaxUiOps == 3       \* TkDetailUI operations in one behaviour

----------------------------------------------------------------------------
(* Text and cells *)

Num(n) == [t |-> "num", v |-> n]
Txt(s) == [t |-> "str", v |-> s]

RECURSIVE LStrip(_)
LStrip(s) == IF s # <<>> /\ Head(s) = " " THEN LStrip(Tail(s)) ELSE s

RECURSIVE RStrip(_)
RStrip(s) ==
    IF s # <<>> /\ s[Len(s)] = " " THEN RStrip(SubSeq(s, 1, Len(s) - 1)) ELSE s

\* str.strip()
Strip(s) == RStrip(LStrip(s))

Max0(q) == IF q < 0 THEN 0 ELSE q

None == "None"

Digits == <<"0", "1", "2", "3", "4", "5", "6", "7", "8", "9">>

IsDigit(ch) == \E d \in 1..10 : Digits[d] = ch

DigitVal(ch) == (CHOOSE d \in 1..10 : Digits[d] = ch) - 1

AllDigits(s) == \A i \in 1..Len(s) : IsDigit(s[i])

RECURSIVE DigitsVal(_)
DigitsVal(s) ==
    IF s = <<>> THEN 0
    ELSE 10 * DigitsVal(SubSeq(s, 1, Len(s) - 1)) + DigitVal(s[Len(s)])

CastError == [error |-> TRUE, value |-> 0]
CastOk(v) == [error |-> FALSE, value |-> v]

\* int(raw): an optional sign and decimal digits, ValueError otherwise
IntCast(raw) ==
    LET neg == raw # <<>> /\ Head(raw) = "-"
        body == IF neg THEN Tail(raw) ELSE raw
    IN  IF body # <<>> /\ AllDigits(body)
        THEN CastOk(IF neg THEN 0 - DigitsVal(body) ELSE DigitsVal(body))
        ELSE CastError

\* float(raw), in hundredths: [-]digits[.digits] with at most two decimals
FloatCast(raw) ==
    LET neg == raw # <<>> /\ Head(raw) = "-"
        body == IF neg THEN Tail(raw) ELSE raw
        dots == { i \in 1..Len(body) : body[i] = "." }
        dot == IF dots = {} THEN Len(body) + 1 ELSE CHOOSE i \in dots : TRUE
        whole == SubSeq(body, 1, dot - 1)
        frac == SubSeq(body, dot + 1, Len(body))
        hundredths == 100 * DigitsVal(whole)
                      + (IF Len(frac) = 1 THEN 10 * DigitsVal(frac) ELSE DigitsVal(frac))
    IN  IF /\ Cardinality(dots) <= 1
           /\ AllDigits(whole) /\ AllDigits(frac)
           /\ Len(whole) + Len(frac) > 0
           /\ Len(frac) <= 2
        THEN CastOk(IF neg THEN 0 - hundredths ELSE hundredths)
        ELSE CastError

\* str(n) for a small integer
RECURSIVE NatStr(_)
NatStr(n) == IF n < 10 THEN << Digits[n + 1] >> ELSE Append(NatStr(n \div 10), Digits[(n % 10) + 1])

IntStr(n) == IF n < 0 THEN <<"-">> \o NatStr(0 - n) ELSE NatStr(n)

HeaderRow == << <<"Componentes">>, Txt(<<"Cantidad">>) >>

DefaultRows ==
    << << <<"Modulos Rele de Doble canal">>, Num(0) >>,
       << <<"Diodo Zener">>, Num(0) >>,
       << <<"7805">>, Num(0) >>,
       << <<"7404">>, Num(0) >> >>

----------------------------------------------------------------------------
(* Google Sheets repository.  Every operator takes `fail`: the ordinal of  *)
(* the API call of this operation that raises (0: none does).              *)

Shift(fail, n) == IF fail > n THEN fail - n ELSE 0

Raise(w) == [ws |-> w, raised |-> TRUE, result |-> 0]
Return(w, r) == [ws |-> w, raised |-> FALSE, result |-> r]

HeaderBad(headers) ==
    \/ Len(headers) < 2
    \/ headers[1] # <<"Componentes">>
    \/ headers[2] # Txt(<<"Cantidad">>)

\* worksheet.update("A1:B1", [["Componentes", "Cantidad"]])
UpdateA1B1(w) == IF w = <<>> THEN <<HeaderRow>> ELSE <<HeaderRow>> \o Tail(w)

\* worksheet.append_row(row)
AppendRow(w, row) == Append(w, row)

\* worksheet.update_cell(idx, 2, value)
UpdateCell(w, idx, value) ==
    [w EXCEPT ![idx] = << @[1], value >>]

EnsureHeaders(w, fail) ==
    IF fail = 1 THEN Raise(w)
    ELSE IF w = <<>> THEN
        IF fail = 2 THEN Raise(w)
        ELSE IF fail = 3 THEN Raise(UpdateA1B1(w))
        ELSE Return(UpdateA1B1(w) \o DefaultRows, 0)
    ELSE IF HeaderBad(w[1]) THEN
        IF fail = 2 THEN Raise(w) ELSE Return(UpdateA1B1(w), 0)
    ELSE Return(w, 0)

\* for idx, row in enumerate(rows, start=2): if row and row[0].strip() == name
RowMatches(row, component_name) == row # <<>> /\ Strip(row[1]) = component_name

Matches(w, component_name) ==
    { idx \in 2..Len(w) : RowMatches(w[idx], component_name) }

FirstMatch(w, component_name) ==
    IF Matches(w, component_name) = {} THEN 0
    ELSE CHOOSE idx \in Matches(w, component_name) :
            \A j \in Matches(w, component_name) : idx <= j

\* int(row[1]) with ValueError / IndexError answered by 0
IntOfRow(row) == IF Len(row) >= 2 /\ row[2].t = "num" THEN row[2].v ELSE 0

ReadQty(w, component_name, fail) ==
    IF fail = 1 THEN Raise(w)
    ELSE IF w = <<>> THEN
        LET e == EnsureHeaders(w, Shift(fail, 1))
        IN  IF e.raised THEN Raise(e.ws) ELSE Return(e.ws, 0)
    ELSE LET idx == FirstMatch(w, component_name)
         IN  IF idx # 0 THEN Return(w, IntOfRow(w[idx]))
             ELSE IF fail = 2 THEN Raise(w)
             ELSE Return(AppendRow(w, <<component_name, Num(0)>>), 0)

WriteRow(w, component_name, qty, fail) ==
    LET idx == FirstMatch(w, component_name)
    IN  IF fail = 1 THEN Raise(w)
        ELSE IF idx # 0 THEN Return(UpdateCell(w, idx, Num(qty)), 0)
        ELSE Return(AppendRow(w, <<component_name, Num(qty)>>), 0)

WriteQty(w, component_name, q, fail) ==
    LET qty == IF q < 0 THEN 0 ELSE q
    IN  IF fail = 1 THEN Raise(w)
        ELSE IF w = <<>> THEN
            LET e == EnsureHeaders(w, Shift(fail, 1))
            IN  IF e.raised THEN Raise(e.ws)
                ELSE IF fail = 5 THEN Raise(e.ws)
                ELSE WriteRow(e.ws, component_name, qty, Shift(fail, 5))
        ELSE WriteRow(w, component_name, qty, Shift(fail, 1))

----------------------------------------------------------------------------
(* Configuration: EnvLoader, EnvSettingsBuilder, SettingsManager,          *)
(* AppSettingsValidator.  A .env file is None (no such file) or a function *)
(* from the names of the variables it defines to their raw text.  Only the *)
(* variables of the confirmation policy are kept; the remaining required   *)
(* variables are taken to be present and convertible.                      *)

NoFile == [exists |-> FALSE]
EnvFileOf(raw_env) == [exists |-> TRUE, env |-> raw_env]

NoSettings == [loaded |-> FALSE]

Failed(kind) == [raised |-> TRUE, error |-> kind]

\* str(raw)
StrCast(raw) == CastOk(raw)

\* cast(raw) for the casts build() passes to _get
Cast(cast, raw) ==
    IF cast = "float" THEN FloatCast(raw)
    ELSE IF cast = "int" THEN IntCast(raw)
    ELSE StrCast(raw)

\* BaseSettingsBuilder._get
Get(raw_env, name, cast) ==
    IF name \notin DOMAIN raw_env THEN Failed("KeyError")
    ELSE IF Cast(cast, raw_env[name]).error THEN Failed("ValueError")
    ELSE [raised |-> FALSE, value |-> Cast(cast, raw_env[name]).value]

\* EnvSettingsBuilder.build: the first _get that raises ends the build
Build(raw_env) ==
    LET t == Get(raw_env, "THRESHOLD", "float")
        n == Get(raw_env, "CONFIRM_FRAMES", "int")
        o == Get(raw_env, "NO_OBJECT_CLASS", "str")
    IN  IF t.raised THEN t
        ELSE IF n.raised THEN n
        ELSE IF o.raised THEN o
        ELSE [raised |-> FALSE,
              value |-> [loaded |-> TRUE, THRESHOLD |-> t.value,
                         CONFIRM_FRAMES |-> n.value, NO_OBJECT_CLASS |-> o.value]]

\* SettingsManager.load_from_env: EnvLoader(env_path).load(), then build()
LoadFromEnvResult(file) ==
    IF ~file.exists THEN Failed("FileNotFoundError") ELSE Build(file.env)

\* a load_from_env that forgets the stored settings when the load fails
StoredAfterLoadClearing(stored, file) ==
    IF LoadFromEnvResult(file).raised THEN NoSettings
    ELSE LoadFromEnvResult(file).value

\* SettingsManager.load_from_env: cls._settings after the call; the
\* assignment is the statement after build()
StoredAfterLoad(stored, file) ==
    IF LoadFromEnvResult(file).raised THEN stored
    ELSE LoadFromEnvResult(file).value

\* SettingsManager.get_settings
GetSettings(stored) ==
    IF stored = NoSettings THEN Failed("RuntimeError")
    ELSE [raised |-> FALSE, value |-> stored]

----------------------------------------------------------------------------
(* Detail window *)

NoLabel == <<>>

UiClosed == [on_retake |-> None, current_component_name |-> NoLabel,
             window_shown |-> FALSE]

NoUiOut == [op |-> "none", on_retake |-> None, calls |-> <<>>,
            writes |-> <<>>, resumed |-> FALSE,
            component |-> NoLabel, reads |-> <<>>, text |-> <<>>,
            raised |-> FALSE, cb_raised |-> FALSE]

\* DefaultAssetRegistry._excel_name_map, and `or class_name`
ExcelName(class_name) ==
    IF class_name = <<"Modulo Rele 2">> THEN <<"Modulos Rele de Doble canal">>
    ELSE class_name

\* the callables a caller may pass as on_retake
Callbacks == { "resume", "retry" }

\* callable(on_retake)
Callable(on_retake) == on_retake \in Callbacks

\* a show() that runs the callback it is given instead of keeping it
ShowResuming(u, w, class_name, on_retake, fail) ==
    LET r == ReadQty(w, ExcelName(class_name), fail)
    IN  [ui |-> [on_retake |-> None,
                 current_component_name |-> class_name,
                 window_shown |-> TRUE],
         ws |-> r.ws,
         called |-> Callable(on_retake)]

\* TkDetailUI.show(class_name, conf, on_retake) with show_component
Show(u, w, class_name, on_retake, fail) ==
    LET r == ReadQty(w, ExcelName(class_name), fail)
    IN  [ui |-> [on_retake |-> IF Callable(on_retake) THEN on_retake ELSE None,
                 current_component_name |-> class_name,
                 window_shown |-> TRUE],
         ws |-> r.ws,
         called |-> FALSE]

\* the callbacks a dismissal invokes: the stored one, if any
CallsOf(u) == IF u.on_retake # None THEN <<u.on_retake>> ELSE <<>>

\* a window close that only hides the window
OnCloseOnlyHides(u) ==
    [ui |-> [u EXCEPT !.window_shown = FALSE], called |-> FALSE, calls |-> <<>>]

\* TkDetailUI._retake_reading: the callback, if any, inside try/except
\* Exception, then withdraw(); what the callback does, or that it raises,
\* changes neither
RetakeReading(u) ==
    [ui |-> [u EXCEPT !.window_shown = FALSE], called |-> u.on_retake # None,
     calls |-> CallsOf(u)]

\* TkDetailUI._on_close: the callback, if any, inside try/except Exception,
\* then withdraw()
OnClose(u) ==
    [ui |-> [u EXCEPT !.window_shown = FALSE], called |-> u.on_retake # None,
     calls |-> CallsOf(u)]

\* a handler that returns without touching the repository
NoWrite(w) == [ws |-> w, reads |-> <<>>, writes |-> <<>>, raised |-> FALSE]

\* repo.write_qty(excel_name, qty), then update_inventory_display(), whose
\* read_qty is inside try/except Exception
WriteAndRefresh(w, excel_name, reads, qty, f2, f3) ==
    LET wr == WriteQty(w, excel_name, qty, f2)
    IN  IF wr.raised
        THEN [ws |-> wr.ws, reads |-> reads, writes |-> <<qty>>, raised |-> TRUE]
        ELSE [ws |-> ReadQty(wr.ws, excel_name, f3).ws, reads |-> reads,
              writes |-> <<qty>>, raised |-> FALSE]

\* TkDetailUI._increase_qty; f1, f2, f3 are the failures of its three
\* repository calls
IncreaseQty(u, w, f1, f2, f3) ==
    IF u.current_component_name = NoLabel THEN NoWrite(w)
    ELSE LET excel_name == ExcelName(u.current_component_name)
             r == ReadQty(w, excel_name, f1)
         IN  IF r.raised THEN [NoWrite(r.ws) EXCEPT !.raised = TRUE]
             ELSE WriteAndRefresh(r.ws, excel_name, <<r.result>>,
                                  r.result + 1, f2, f3)

\* TkDetailUI._decrease_qty
DecreaseQty(u, w, f1, f2, f3) ==
    IF u.current_component_name = NoLabel THEN NoWrite(w)
    ELSE LET excel_name == ExcelName(u.current_component_name)
             r == ReadQty(w, excel_name, f1)
         IN  IF r.raised THEN [NoWrite(r.ws) EXCEPT !.raised = TRUE]
             ELSE WriteAndRefresh(r.ws, excel_name, <<r.result>>,
                                  Max0(r.result - 1), f2, f3)

\* TkDetailUI._apply_manual_qty; entry is the text of the entry field
ApplyManualQty(u, w, entry, f2, f3) ==
    LET text == Strip(entry)
    IN  IF u.current_component_name = NoLabel THEN NoWrite(w)
        ELSE IF text = <<>> THEN NoWrite(w)
        ELSE IF IntCast(text).error THEN NoWrite(w)
        ELSE WriteAndRefresh(w, ExcelName(u.current_component_name), <<>>,
                             Max0(IntCast(text).value), f2, f3)

----------------------------------------------------------------------------
(* Controller: the detection confirmation policy.  Confidence and         *)
(* threshold are in hundredths.  The class_names and valid_classes that    *)
(* Application also passes take no part in the policy's contract.          *)

NoController == [built |-> FALSE]

\* Application.__init__: the arguments AppController is constructed with
ControllerArgsOffByOne(s) ==
    [threshold |-> s.THRESHOLD, confirm_frames |-> s.CONFIRM_FRAMES + 1,
     no_object_class |-> s.NO_OBJECT_CLASS]

ControllerArgsOneLess(s) ==
    [threshold |-> s.THRESHOLD, confirm_frames |-> s.CONFIRM_FRAMES - 1,
     no_object_class |-> s.NO_OBJECT_CLASS]

ControllerArgsClamped(s) ==
    [threshold |-> s.THRESHOLD,
     confirm_frames |-> IF s.CONFIRM_FRAMES < 1 THEN 1 ELSE s.CONFIRM_FRAMES,
     no_object_class |-> s.NO_OBJECT_CLASS]

ControllerArgsNoSentinel(s) ==
    [threshold |-> s.THRESHOLD, confirm_frames |-> s.CONFIRM_FRAMES,
     no_object_class |-> NoLabel]

ControllerArgsNoThreshold(s) ==
    [threshold |-> 0, confirm_frames |-> s.CONFIRM_FRAMES,
     no_object_class |-> s.NO_OBJECT_CLASS]

ControllerArgs(s) ==
    [threshold |-> s.THRESHOLD, confirm_frames |-> s.CONFIRM_FRAMES,
     no_object_class |-> s.NO_OBJECT_CLASS]

\* the policy's construction-time check
ConfigurationError(args) ==
    args.confirm_frames <= 0 \/ args.threshold < 0 \/ args.threshold > 100

NewController(args) ==
    [built |-> TRUE, threshold |-> args.threshold,
     confirm_frames |-> args.confirm_frames,
     no_object_class |-> args.no_object_class,
     candidate_label |-> NoLabel, streak_count |-> 0, armed |-> TRUE]

\* qualifying observation: label != no_object_label AND confidence >= threshold
Qualifies(c, obs) == obs.label # c.no_object_class /\ obs.confidence >= c.threshold

\* one observation: the policy after it, and the label confirmed (or NoLabel)
Observe(c, obs) ==
    IF ~c.armed THEN [ctl |-> c, emit |-> NoLabel]
    ELSE IF ~Qualifies(c, obs)
    THEN [ctl |-> [c EXCEPT !.candidate_label = NoLabel, !.streak_count = 0],
          emit |-> NoLabel]
    ELSE LET streak == IF obs.label = c.candidate_label THEN c.streak_count + 1 ELSE 1
         IN  IF streak >= c.confirm_frames
             THEN [ctl |-> [c EXCEPT !.candidate_label = NoLabel,
                                     !.streak_count = 0, !.armed = FALSE],
                   emit |-> obs.label]
             ELSE [ctl |-> [c EXCEPT !.candidate_label = obs.label,
                                     !.streak_count = streak],
                   emit |-> NoLabel]

\* resume(): re-arms the idle policy
Resume(c) ==
    [c EXCEPT !.candidate_label = NoLabel, !.streak_count = 0, !.armed = TRUE]

----------------------------------------------------------------------------
(* Specification Spec: the application, from .env to the running controller *)

NoObjectLabel == <<"Nada">>
Labels == { <<"7805">>, <<"Modulo Rele 2">>, NoObjectLabel }
Confidences == { 79, 80 }
Observations == [label : Labels, confidence : Confidences]

RawThresholds ==
    { <<"0", ".", "8">>, <<"1">>, <<"0">>, <<"1", ".", "5">>, <<"-", "0", ".", "5">>, <<"x">> }
RawConfirmFrames == { IntStr(n) : n \in -1..MaxConfirmFrames } \cup { <<"x">> }

Restrict(f, D) == [x \in D |-> f[x]]

EnvNames == { "THRESHOLD", "CONFIRM_FRAMES", "NO_OBJECT_CLASS" }

EnvFiles ==
    { NoFile } \cup
    { EnvFileOf(Restrict([THRESHOLD |-> t, CONFIRM_FRAMES |-> n,
                          NO_OBJECT_CLASS |-> NoObjectLabel], D)) :
        t \in RawThresholds, n \in RawConfirmFrames,
        D \in { EnvNames, EnvNames \ {"THRESHOLD"}, EnvNames \ {"CONFIRM_FRAMES"} } }

\* sheets the repository may find when Application constructs it
AppSheets == { <<>>, << HeaderRow, << <<"7805">>, Num(1) >> >> }

NoCall == [called |-> FALSE]

\* the parts of the state a specification does not use
MultiIdle ==
    /\ repos = <<>>
    /\ reposBefore = <<>>
    /\ callLog = <<>>
    /\ multiOut = [op |-> "none"]
    /\ mops = 0

NoOp == [op |-> "none", name |-> <<>>, qty |-> 0, raised |-> FALSE, result |-> 0]

SheetIdle ==
    /\ ws = <<>>
    /\ wsBefore = <<>>
    /\ lastOp = NoOp
    /\ prevOp = NoOp
    /\ nops = 0

NoSettingsOp == [op |-> "none"]

SettingsIdle ==
    /\ smLog = <<>>
    /\ smOut = NoSettingsOp

\* the last n elements of a sequence
LastN(q, n) == IF Len(q) <= n THEN q ELSE SubSeq(q, Len(q) - n + 1, Len(q))

AppIdle ==
    /\ pc = "idle"
    /\ error = None
    /\ envFile = NoFile
    /\ settings = NoSettings
    /\ ctl = NoController
    /\ hist = <<>>
    /\ lastCall = NoCall
    /\ ui = UiClosed
    /\ uiOut = NoUiOut

Init ==
    /\ pc = "start"
    /\ error = None
    /\ envFile \in EnvFiles
    /\ settings = NoSettings
    /\ ctl = NoController
    /\ hist = <<>>
    /\ lastCall = NoCall
    /\ ui = UiClosed
    /\ uiOut = NoUiOut
    /\ SheetIdle
    /\ MultiIdle
    /\ SettingsIdle

Fail(kind) == pc' = "failed" /\ error' = kind

\* Application.__init__ step 1: SettingsManager.load_from_env(env_path)
LoadFromEnv ==
    /\ pc = "start"
    /\ LET r == LoadFromEnvResult(envFile)
       IN  IF r.raised
           THEN Fail(r.error) /\ UNCHANGED settings
           ELSE pc' = "loaded" /\ settings' = r.value /\ UNCHANGED error
    /\ UNCHANGED <<envFile, ctl, hist, lastCall, ui, uiOut>>
    /\ UNCHANGED <<sheetVars, multiVars, settingsVars>>

\* Application.__init__ step 1: AppSettingsValidator.validate(settings);
\* the paths it tests are on the file system
Validate ==
    /\ pc = "loaded"
    /\ \E paths_ok \in BOOLEAN :
          IF paths_ok THEN pc' = "validated" /\ UNCHANGED error
          ELSE Fail("FileNotFoundError")
    /\ UNCHANGED <<envFile, settings, ctl, hist, lastCall, ui, uiOut>>
    /\ UNCHANGED <<sheetVars, multiVars, settingsVars>>

\* Application.__init__ steps 2 to 11; the inventory repository is a
\* GoogleSheetInventoryRepo, whose constructor runs ensure_schema()
BuildDependencies ==
    /\ pc = "validated"
    /\ \E pre \in AppSheets, fail \in 0..3 :
          LET r == EnsureHeaders(pre, fail)
          IN  /\ ws' = r.ws
              /\ IF r.raised THEN Fail("APIError")
                 ELSE pc' = "built" /\ UNCHANGED error
    /\ ui' = UiClosed
    /\ UNCHANGED <<envFile, settings, ctl, hist, lastCall, uiOut>>
    /\ UNCHANGED <<wsBefore, lastOp, prevOp, nops, multiVars, settingsVars>>

\* Application.__init__ step 12: AppController(...)
BuildController ==
    /\ pc = "built"
    /\ LET args == ControllerArgs(settings)
       IN  IF ConfigurationError(args)
           THEN Fail("ConfigurationError") /\ UNCHANGED ctl
           ELSE pc' = "running" /\ ctl' = NewController(args) /\ UNCHANGED error
    /\ UNCHANGED <<envFile, settings, hist, lastCall, ui, uiOut>>
    /\ UNCHANGED <<sheetVars, multiVars, settingsVars>>

\* one frame: the observation goes to the policy; a confirmation opens the
\* detail window through ui.show(label, conf, resume)
ObserveFrame ==
    /\ pc = "running"
    /\ \E obs \in Observations :
          LET o == Observe(ctl, obs)
              emittedBefore == IF lastCall.called THEN lastCall.emitted ELSE 0
              qualifiedBefore == lastCall.called /\ lastCall.qualified
              qualifies == /\ obs.label # settings.NO_OBJECT_CLASS
                           /\ obs.confidence >= settings.THRESHOLD
          IN  /\ IF o.emit = NoLabel
                 THEN ctl' = o.ctl /\ UNCHANGED <<ui, ws, uiOut>>
                 ELSE \E fail \in 0..2 :
                        LET sh == Show(ui, ws, o.emit, "resume", fail)
                        IN  /\ ui' = sh.ui
                            /\ ws' = sh.ws
                            /\ uiOut' = [uiOut EXCEPT !.op = "show",
                                                      !.on_retake = "resume",
                                                      !.calls = <<>>]
                            /\ ctl' = IF sh.called THEN Resume(o.ctl) ELSE o.ctl
              /\ hist' = LastN(Append(hist, obs), MaxConfirmFrames)
              /\ lastCall' = [called |-> TRUE, obs |-> obs, emit |-> o.emit,
                              before |-> ctl,
                              emittedBefore |-> emittedBefore,
                              emitted |-> IF o.emit = NoLabel \/ emittedBefore >= 2
                                          THEN emittedBefore ELSE emittedBefore + 1,
                              qualified |-> qualifiedBefore \/ qualifies]
    /\ UNCHANGED <<pc, error, envFile, settings>>
    /\ UNCHANGED <<wsBefore, lastOp, prevOp, nops, multiVars, settingsVars>>

\* the operator presses 'Volver a lectura'
DoRetakeReading ==
    /\ pc = "running"
    /\ ui.window_shown
    /\ LET d == RetakeReading(ui)
       IN  /\ ui' = d.ui
           /\ uiOut' = [uiOut EXCEPT !.op = "retake", !.calls = d.calls,
                                     !.resumed = uiOut.resumed \/ d.called]
           /\ IF d.called
              THEN ctl' = Resume(ctl) /\ hist' = <<>> /\ lastCall' = NoCall
              ELSE UNCHANGED <<ctl, hist, lastCall>>
    /\ UNCHANGED <<pc, error, envFile, settings>>
    /\ UNCHANGED <<sheetVars, multiVars, settingsVars>>

\* the operator closes the detail window
DoOnClose ==
    /\ pc = "running"
    /\ ui.window_shown
    /\ LET d == OnClose(ui)
       IN  /\ ui' = d.ui
           /\ uiOut' = [uiOut EXCEPT !.op = "close", !.calls = d.calls,
                                     !.resumed = uiOut.resumed \/ d.called]
           /\ IF d.called
              THEN ctl' = Resume(ctl) /\ hist' = <<>> /\ lastCall' = NoCall
              ELSE UNCHANGED <<ctl, hist, lastCall>>
    /\ UNCHANGED <<pc, error, envFile, settings>>
    /\ UNCHANGED <<sheetVars, multiVars, settingsVars>>

Next ==
    \/ LoadFromEnv
    \/ Validate
    \/ BuildDependencies
    \/ BuildController
    \/ ObserveFrame
    \/ DoRetakeReading
    \/ DoOnClose

Spec == Init /\ [][Next]_vars

----------------------------------------------------------------------------
(* Claims about the confirmation policy, checked under Spec.  They are     *)
(* stated over the configuration read from .env and the observations       *)
(* received, not over the policy's own counters.                           *)

\* the observation qualifies under the configuration of .env
QualifiesCfg(obs) ==
    obs.label # settings.NO_OBJECT_CLASS /\ obs.confidence >= settings.THRESHOLD

\* the last CONFIRM_FRAMES observations all qualify and carry label L
RunReached(L) ==
    /\ Len(hist) >= settings.CONFIRM_FRAMES
    /\ \A i \in (Len(hist) - settings.CONFIRM_FRAMES + 1)..Len(hist) :
          QualifiesCfg(hist[i]) /\ hist[i].label = L

\* length of the run of qualifying observations of one label that ends h
RECURSIVE RunLen(_)
RunLen(h) ==
    IF h = <<>> \/ ~QualifiesCfg(h[Len(h)]) THEN 0
    ELSE LET rest == SubSeq(h, 1, Len(h) - 1)
         IN  IF rest # <<>> /\ rest[Len(rest)].label = h[Len(h)].label
             THEN LET n == RunLen(rest) IN IF n = 0 THEN 1 ELSE n + 1
             ELSE 1

Idle(c) == c.streak_count = 0 /\ c.candidate_label = NoLabel

\* C1: counting from the start or the last resume(), the call that delivers
\* the CONFIRM_FRAMES-th consecutive qualifying observation of one label emits
\* CONFIRMED(label), once; every other call emits nothing.
C1_ConfirmedOnNthObservation ==
    lastCall.called =>
        /\ lastCall.emit =
              IF lastCall.emittedBefore = 0 /\ RunReached(lastCall.obs.label)
              THEN lastCall.obs.label ELSE NoLabel
        /\ lastCall.emitted <= 1

\* threshold 0.8, confirm_frames 3: CONFIRMED after the third observation
C1_Witness ==
    /\ lastCall.called
    /\ settings.THRESHOLD = 80 /\ settings.CONFIRM_FRAMES = 3
    /\ Len(hist) = 3
    /\ lastCall.emit = <<"7805">>
    /\ ui.window_shown /\ ui.current_component_name = <<"7805">>

\* C2: after CONFIRMED the policy is idle (streak 0, no candidate), and until
\* the next resume() no observation emits or changes the ConfirmationState.
C2_IdleAfterConfirmed ==
    lastCall.called =>
        /\ lastCall.emit # NoLabel => ~ctl.armed /\ Idle(ctl)
        /\ lastCall.emittedBefore >= 1 =>
              lastCall.emit = NoLabel /\ ctl = lastCall.before /\ Idle(ctl)

\* a full run of qualifying observations of the confirmed label, after CONFIRMED
C2_Witness ==
    /\ lastCall.called
    /\ lastCall.emittedBefore = 1
    /\ settings.CONFIRM_FRAMES = 1
    /\ Len(hist) = 3
    /\ \A i \in 1..3 : hist[i].label = <<"7805">> /\ QualifiesCfg(hist[i])

\* C3: CONFIRMED(L) is emitted only by a call that, with the CONFIRM_FRAMES - 1
\* calls before it since the start or the last resume(), carried L and
\* qualified; CONFIRM_FRAMES - 1 such observations never emit.
C3_ConfirmFramesNecessary ==
    (lastCall.called /\ lastCall.emit # NoLabel) =>
        /\ lastCall.emit = lastCall.obs.label
        /\ RunReached(lastCall.emit)

\* confirm_frames 3 and a run of exactly two qualifying observations
C3_Witness ==
    /\ lastCall.called
    /\ settings.CONFIRM_FRAMES = 3
    /\ Len(hist) = 2
    /\ RunLen(hist) = 2
    /\ lastCall.emit = NoLabel

\* C4: while no CONFIRMED is emitted, an observation that qualifies and carries
\* the candidate's label adds one to the streak, any other qualifying
\* observation makes (its label, 1) the state, and a non-qualifying one makes
\* (no candidate, 0) the state; so the streak is the length of the run of
\* qualifying same-label observations received last.
C4_StreakInvariant ==
    (lastCall.called /\ lastCall.emittedBefore = 0 /\ lastCall.emit = NoLabel) =>
        /\ IF ~QualifiesCfg(lastCall.obs) THEN Idle(ctl)
           ELSE IF lastCall.obs.label = lastCall.before.candidate_label
           THEN /\ ctl.candidate_label = lastCall.obs.label
                /\ ctl.streak_count = lastCall.before.streak_count + 1
           ELSE /\ ctl.candidate_label = lastCall.obs.label
                /\ ctl.streak_count = 1
        /\ ctl.streak_count = RunLen(hist)
        /\ ctl.streak_count < settings.CONFIRM_FRAMES

\* a run of two observations of one label is interrupted by another label
C4_Witness ==
    /\ lastCall.called
    /\ settings.CONFIRM_FRAMES = 3
    /\ lastCall.before.streak_count = 2
    /\ lastCall.before.candidate_label = <<"7805">>
    /\ lastCall.obs.label = <<"Modulo Rele 2">>
    /\ QualifiesCfg(lastCall.obs)
    /\ ctl.streak_count = 1

\* C5: an observation counts exactly when its label is not the no-object label
\* and its confidence is at least the threshold; as long as no observation
\* qualifies, the streak stays 0 and nothing is confirmed.
C5_OnlyQualifyingObservationsCount ==
    lastCall.called =>
        /\ ~QualifiesCfg(lastCall.obs) => lastCall.emit = NoLabel /\ Idle(ctl)
        /\ (QualifiesCfg(lastCall.obs) /\ lastCall.emittedBefore = 0) =>
              \/ lastCall.emit = lastCall.obs.label
              \/ ctl.candidate_label = lastCall.obs.label /\ ctl.streak_count >= 1
        /\ ~lastCall.qualified => Idle(ctl) /\ lastCall.emitted = 0

\* three observations of one label at confidence 0.79 under threshold 0.8
C5_Witness ==
    /\ lastCall.called
    /\ settings.THRESHOLD = 80 /\ settings.CONFIRM_FRAMES = 1
    /\ Len(hist) = 3
    /\ \A i \in 1..3 : hist[i] = [label |-> <<"7805">>, confidence |-> 79]
    /\ ~lastCall.qualified

InvalidPolicySettings ==
    settings.CONFIRM_FRAMES <= 0 \/ settings.THRESHOLD < 0 \/ settings.THRESHOLD > 100

\* C6: with CONFIRM_FRAMES <= 0 or THRESHOLD outside [0, 1] in .env the
\* controller's construction fails with a configuration error: no controller
\* runs and no observation is processed.
C6_InvalidConfigurationRejected ==
    /\ pc = "running" => ~InvalidPolicySettings
    /\ (settings.loaded /\ InvalidPolicySettings) =>
          ctl = NoController /\ hist = <<>> /\ ~lastCall.called
    /\ (pc = "failed" /\ error = "ConfigurationError") =>
          settings.loaded /\ InvalidPolicySettings

\* CONFIRM_FRAMES=0 in .env: the construction of the controller has failed
C6_Witness ==
    /\ pc = "failed"
    /\ error = "ConfigurationError"
    /\ settings.CONFIRM_FRAMES = 0

\* C12: dismissing the detail window, by 'Volver a lectura' or by closing
\* it, invokes the callback of the most recent show() exactly once and hides
\* the window; so the policy is never disarmed while the window is hidden,
\* the policy is armed and idle after the dismissal, and the next run of
\* CONFIRM_FRAMES qualifying observations of one label is confirmed.
C12_DismissalResumes ==
    /\ uiOut.op \in {"retake", "close"} =>
          /\ Callable(uiOut.on_retake) => uiOut.calls = <<uiOut.on_retake>>
          /\ ~ui.window_shown
          /\ ctl.armed
          /\ ~lastCall.called => Idle(ctl)
    /\ (pc = "running" /\ ~ctl.armed) => ui.window_shown
    /\ (uiOut.resumed /\ lastCall.called /\ lastCall.emittedBefore = 0
          /\ RunReached(lastCall.obs.label)) =>
             lastCall.emit = lastCall.obs.label /\ ui.window_shown

\* a confirmation, the window closed, then a second confirmation after
\* three new qualifying observations
C12_Witness ==
    /\ uiOut.resumed
    /\ uiOut.op = "show"
    /\ lastCall.called
    /\ settings.CONFIRM_FRAMES = 3
    /\ Len(hist) = 3
    /\ lastCall.emit = <<"Modulo Rele 2">>
    /\ ui.window_shown /\ ~ctl.armed

----------------------------------------------------------------------------
(* Specification SpecSheet: one GoogleSheetInventoryRepo on a shared sheet *)

ComponentNames == { <<"A">>, <<" ", "A">>, <<"B">> }
Quantities == -1..MaxQty
FailPoints == 0..6

\* rows a sheet may hold before the repository is constructed
InitRows ==
    { << <<"A">>, Num(1) >>, << <<"A", " ">>, Num(0) >>,
      << <<"B">>, Txt(<<"x">>) >>, << <<"B">> >>, <<>> }

RECURSIVE SeqsUpTo(_, _)
SeqsUpTo(S, n) ==
    IF n = 0 THEN { <<>> }
    ELSE LET R == SeqsUpTo(S, n - 1)
         IN  R \cup { Append(r, x) : r \in { q \in R : Len(q) = n - 1 }, x \in S }

\* GoogleSheetInventoryRepo.__init__: the worksheet, then ensure_schema()
SheetInit ==
    /\ \E pre \in SeqsUpTo(InitRows, MaxInitRows) : ws = EnsureHeaders(pre, 0).ws
    /\ wsBefore = ws
    /\ lastOp = NoOp
    /\ prevOp = NoOp
    /\ nops = 0
    /\ MultiIdle
    /\ AppIdle
    /\ SettingsIdle

DoReadQty ==
    /\ nops < MaxOps
    /\ \E c \in ComponentNames, fail \in FailPoints :
          LET r == ReadQty(ws, c, fail)
          IN  /\ ws' = r.ws
              /\ lastOp' = [op |-> "read", name |-> c, qty |-> 0,
                            raised |-> r.raised, result |-> r.result]
    /\ wsBefore' = ws
    /\ prevOp' = lastOp
    /\ nops' = nops + 1
    /\ UNCHANGED <<multiVars, appVars, settingsVars>>

DoWriteQty ==
    /\ nops < MaxOps
    /\ \E c \in ComponentNames, q \in Quantities, fail \in FailPoints :
          LET r == WriteQty(ws, c, q, fail)
          IN  /\ ws' = r.ws
              /\ lastOp' = [op |-> "write", name |-> c, qty |-> q,
                            raised |-> r.raised, result |-> 0]
    /\ wsBefore' = ws
    /\ prevOp' = lastOp
    /\ nops' = nops + 1
    /\ UNCHANGED <<multiVars, appVars, settingsVars>>

\* another user of the shared spreadsheet deletes every row
SheetCleared ==
    /\ ws # <<>>
    /\ ws' = <<>>
    /\ wsBefore' = ws
    /\ lastOp' = [NoOp EXCEPT !.op = "cleared"]
    /\ prevOp' = lastOp
    /\ UNCHANGED nops
    /\ UNCHANGED <<multiVars, appVars, settingsVars>>

SheetNext == DoReadQty \/ DoWriteQty \/ SheetCleared

SpecSheet == SheetInit /\ [][SheetNext]_vars

----------------------------------------------------------------------------
(* Claims about GoogleSheetInventoryRepo, checked under SpecSheet *)

\* the quantity the repository reports for a component
QtyOf(w, component_name) == ReadQty(w, component_name, 0).result

\* the sheet holds a row whose name cell is exactly the component's name
HasRowFor(w, component_name) ==
    \E idx \in 1..Len(w) : w[idx] # <<>> /\ w[idx][1] = component_name

WriteSucceeded(o) == o.op = "write" /\ ~o.raised
ReadSucceeded(o) == o.op = "read" /\ ~o.raised

\* C9: a read_qty(c) that follows a successful write_qty(c, q) returns
\* max(0, q), and a successful write_qty(c, q) leaves the quantity of every
\* other component as it was.
C9_WriteThenRead ==
    /\ (WriteSucceeded(prevOp) /\ ReadSucceeded(lastOp) /\ lastOp.name = prevOp.name)
          => lastOp.result = Max0(prevOp.qty)
    /\ WriteSucceeded(lastOp)
          => \A d \in ComponentNames \ {lastOp.name} : QtyOf(ws, d) = QtyOf(wsBefore, d)

\* C10: a read_qty(c) of a component without a row, on any sheet (the empty
\* sheet included), returns 0 and leaves a row for c in the sheet.
C10_ReadCreatesRow ==
    (ReadSucceeded(lastOp) /\ Matches(wsBefore, lastOp.name) = {})
        => lastOp.result = 0 /\ HasRowFor(ws, lastOp.name)

----------------------------------------------------------------------------
(* MultiInventoryRepo over a list of inner repositories.  The inner        *)
(* repositories are GoogleSheetInventoryRepo instances, each on its own    *)
(* sheet; fails[i] is the failure point of the call made on repository i.  *)

Call(i, method, component_name, qty, r) ==
    [repo |-> i, method |-> method, name |-> component_name, qty |-> qty,
     raised |-> r.raised, result |-> r.result]

\* for repo in self._repos: try: repo.write_qty(...) except Exception: errors.append
RECURSIVE WriteLoop(_, _, _, _, _, _)
WriteLoop(rs, i, component_name, qty, fails, acc) ==
    IF i > Len(rs) THEN acc
    ELSE LET r == WriteQty(rs[i], component_name, qty, fails[i])
         IN  WriteLoop(rs, i + 1, component_name, qty, fails,
                [repos  |-> [acc.repos EXCEPT ![i] = r.ws],
                 log    |-> Append(acc.log, Call(i, "write_qty", component_name, qty, r)),
                 errors |-> IF r.raised THEN Append(acc.errors, i) ELSE acc.errors])

\* the loop of a write_qty that gives up at the first inner failure
RECURSIVE WriteLoopStopping(_, _, _, _, _, _)
WriteLoopStopping(rs, i, component_name, qty, fails, acc) ==
    IF i > Len(rs) \/ acc.errors # <<>> THEN acc
    ELSE LET r == WriteQty(rs[i], component_name, qty, fails[i])
         IN  WriteLoopStopping(rs, i + 1, component_name, qty, fails,
                [repos  |-> [acc.repos EXCEPT ![i] = r.ws],
                 log    |-> Append(acc.log, Call(i, "write_qty", component_name, qty, r)),
                 errors |-> IF r.raised THEN Append(acc.errors, i) ELSE acc.errors])

MultiWriteQtyStopping(rs, component_name, qty, fails) ==
    LET a == WriteLoopStopping(rs, 1, component_name, qty, fails,
                               [repos |-> rs, log |-> <<>>, errors |-> <<>>])
    IN  [repos |-> a.repos, log |-> a.log, errors |-> a.errors,
         raised |-> a.errors # <<>>, result |-> 0]

MultiWriteQty(rs, component_name, qty, fails) ==
    LET a == WriteLoop(rs, 1, component_name, qty, fails,
                       [repos |-> rs, log |-> <<>>, errors |-> <<>>])
    IN  [repos |-> a.repos, log |-> a.log, errors |-> a.errors,
         raised |-> FALSE, result |-> 0]

\* a read_qty that falls back on the next repository when one fails
RECURSIVE ReadLoopFallback(_, _, _, _, _)
ReadLoopFallback(rs, i, component_name, fails, acc) ==
    LET r == ReadQty(rs[i], component_name, fails[i])
        next == [repos  |-> [acc.repos EXCEPT ![i] = r.ws],
                 log    |-> Append(acc.log, Call(i, "read_qty", component_name, 0, r)),
                 errors |-> IF r.raised THEN Append(acc.errors, i) ELSE acc.errors,
                 raised |-> r.raised, result |-> r.result]
    IN  IF r.raised /\ i < Len(rs)
        THEN ReadLoopFallback(rs, i + 1, component_name, fails, next)
        ELSE next

MultiReadQtyFallback(rs, component_name, fails) ==
    ReadLoopFallback(rs, 1, component_name, fails,
                     [repos |-> rs, log |-> <<>>, errors |-> <<>>,
                      raised |-> FALSE, result |-> 0])

\* return self._repos[0].read_qty(component_name)
MultiReadQty(rs, component_name, fails) ==
    LET r == ReadQty(rs[1], component_name, fails[1])
    IN  [repos  |-> [rs EXCEPT ![1] = r.ws],
         log    |-> << Call(1, "read_qty", component_name, 0, r) >>,
         errors |-> IF r.raised THEN <<1>> ELSE <<>>,
         raised |-> r.raised, result |-> r.result]

----------------------------------------------------------------------------
(* Specification SpecMulti *)

MultiNames == { <<"A">>, <<"B">> }
\* an inner call succeeds (0) or raises (1); the inner sheets are never empty,
\* so a call that raises leaves its sheet as it was at whichever API call
InnerFailPoints == 0..1

\* sheets of the inner repositories once they are constructed
InnerSheets ==
    { <<HeaderRow>>, <<HeaderRow, << <<"A">>, Num(1) >> >> }

\* MultiInventoryRepo.__init__: at least one inner repository
MultiInit ==
    /\ repos \in { rs \in SeqsUpTo(InnerSheets, MaxRepos) : rs # <<>> }
    /\ reposBefore = repos
    /\ callLog = <<>>
    /\ multiOut = [op |-> "none"]
    /\ mops = 0
    /\ SheetIdle
    /\ AppIdle
    /\ SettingsIdle

MultiDoWriteQty ==
    /\ mops < MaxMultiOps
    /\ \E c \in MultiNames, q \in Quantities,
          fails \in [1..Len(repos) -> InnerFailPoints] :
          LET m == MultiWriteQty(repos, c, q, fails)
          IN  /\ repos' = m.repos
              /\ callLog' = m.log
              /\ multiOut' = [op |-> "write", name |-> c, qty |-> q,
                              raised |-> m.raised, result |-> m.result,
                              errors |-> m.errors]
    /\ reposBefore' = repos
    /\ mops' = mops + 1
    /\ UNCHANGED <<sheetVars, appVars, settingsVars>>

MultiDoReadQty ==
    /\ mops < MaxMultiOps
    /\ \E c \in MultiNames, fails \in [1..Len(repos) -> InnerFailPoints] :
          LET m == MultiReadQty(repos, c, fails)
          IN  /\ repos' = m.repos
              /\ callLog' = m.log
              /\ multiOut' = [op |-> "read", name |-> c, qty |-> 0,
                              raised |-> m.raised, result |-> m.result,
                              errors |-> m.errors]
    /\ reposBefore' = repos
    /\ mops' = mops + 1
    /\ UNCHANGED <<sheetVars, appVars, settingsVars>>

MultiNext == MultiDoWriteQty \/ MultiDoReadQty

SpecMulti == MultiInit /\ [][MultiNext]_vars

----------------------------------------------------------------------------
(* Claims about MultiInventoryRepo, checked under SpecMulti *)

\* C7: write_qty(c, q) calls write_qty(c, q) on every inner repository, in
\* list order, exactly once each, whichever of them fail, and does not raise.
C7_WriteReachesEveryRepo ==
    multiOut.op = "write" =>
        /\ ~multiOut.raised
        /\ Len(callLog) = Len(repos)
        /\ \A i \in 1..Len(callLog) :
              /\ callLog[i].repo = i
              /\ callLog[i].method = "write_qty"
              /\ callLog[i].name = multiOut.name
              /\ callLog[i].qty = multiOut.qty
        /\ \A i \in 1..Len(repos) :
              repos[i] = WriteQty(reposBefore[i], multiOut.name, multiOut.qty,
                                  IF callLog[i].raised THEN 1 ELSE 0).ws

\* a write in which the first of several inner repositories failed
C7_Witness ==
    /\ multiOut.op = "write"
    /\ Len(repos) >= 2
    /\ multiOut.errors # <<>>
    /\ multiOut.errors[1] = 1
    /\ ~callLog[2].raised
    /\ repos[2] # reposBefore[2]

\* C8: read_qty(c) returns what the first inner repository returns and
\* raises when it raises; no other inner repository is called or changed.
C8_ReadFromPrimaryOnly ==
    multiOut.op = "read" =>
        /\ Len(callLog) = 1
        /\ callLog[1].repo = 1
        /\ callLog[1].method = "read_qty"
        /\ callLog[1].name = multiOut.name
        /\ multiOut.raised = callLog[1].raised
        /\ ~multiOut.raised => multiOut.result = QtyOf(reposBefore[1], multiOut.name)
        /\ \A i \in 2..Len(repos) : repos[i] = reposBefore[i]

\* a read answered by the primary while another repository holds another value
C8_Witness ==
    /\ multiOut.op = "read"
    /\ ~multiOut.raised
    /\ Len(repos) >= 2
    /\ QtyOf(repos[2], multiOut.name) # multiOut.result

----------------------------------------------------------------------------
(* Specification SpecSettings: SettingsManager, loaded any number of times *)
(* from .env files that differ from call to call, and queried in between.  *)

SettingsFiles ==
    { NoFile } \cup
    { EnvFileOf(Restrict([THRESHOLD |-> t, CONFIRM_FRAMES |-> n,
                          NO_OBJECT_CLASS |-> NoObjectLabel], D)) :
        t \in { <<"0", ".", "8">>, <<"1">>, <<"x">> },
        n \in { IntStr(1), IntStr(MaxConfirmFrames), <<"x">> },
        D \in { EnvNames, EnvNames \ {"CONFIRM_FRAMES"} } }

SettingsInit ==
    /\ SettingsIdle
    /\ AppIdle
    /\ SheetIdle
    /\ MultiIdle

\* SettingsManager.load_from_env(env_path)
SettingsLoadFromEnv ==
    /\ Len(smLog) < MaxLoads
    /\ \E file \in SettingsFiles :
          LET r == LoadFromEnvResult(file)
          IN  /\ settings' = StoredAfterLoad(settings, file)
              /\ smLog' = Append(smLog, r)
              /\ smOut' = [op |-> "load", before |-> settings, out |-> r]
    /\ UNCHANGED <<pc, error, envFile, ctl, hist, lastCall, ui, uiOut>>
    /\ UNCHANGED <<sheetVars, multiVars>>

\* SettingsManager.get_settings()
SettingsGetSettings ==
    /\ smOut' = [op |-> "get", before |-> settings, out |-> GetSettings(settings)]
    /\ UNCHANGED <<smLog, appVars, sheetVars, multiVars>>

SettingsNext ==
    \/ SettingsLoadFromEnv
    \/ SettingsGetSettings

SpecSettings == SettingsInit /\ [][SettingsNext]_vars

\* the value of the most recent load that succeeded, or None
RECURSIVE LastLoaded(_)
LastLoaded(log) ==
    IF log = <<>> THEN NoSettings
    ELSE IF ~log[Len(log)].raised THEN log[Len(log)].value
    ELSE LastLoaded(SubSeq(log, 1, Len(log) - 1))

\* C11: get_settings() raises RuntimeError as long as no load_from_env() has
\* succeeded, and otherwise returns the settings of the most recent load that
\* succeeded; a load_from_env() that raises leaves the stored settings as
\* they were.
C11_SettingsOfLastSuccessfulLoad ==
    /\ smOut.op = "get" =>
          IF LastLoaded(smLog) = NoSettings
          THEN smOut.out.raised /\ smOut.out.error = "RuntimeError"
          ELSE ~smOut.out.raised /\ smOut.out.value = LastLoaded(smLog)
    /\ (smOut.op = "load" /\ smOut.out.raised) => settings = smOut.before
    /\ (smOut.op = "load" /\ ~smOut.out.raised) =>
          settings = smOut.out.value /\ settings.loaded

\* two loads succeed with different settings, a third fails, then get_settings()
C11_Witness ==
    /\ smOut.op = "get"
    /\ Len(smLog) = 3
    /\ ~smLog[1].raised /\ ~smLog[2].raised /\ smLog[3].raised
    /\ smLog[1].value # smLog[2].value
    /\ ~smOut.out.raised /\ smOut.out.value = smLog[2].value

----------------------------------------------------------------------------
(* Specification SpecSchema: ensure_schema() on the worksheet as            *)
(* BaseGoogleSheetRepo.__init__ finds it, called by the constructor and by  *)
(* the application afterwards, on a spreadsheet other users can clear.      *)

\* GoogleSheetInventoryRepo.ensure_schema: _ensure_headers(), any exception
\* is printed and raised again
EnsureSchema(w, fail) == EnsureHeaders(w, fail)

\* rows the worksheet may hold: with or without the expected header
SchemaRows == InitRows \cup { HeaderRow }

SchemaInit ==
    /\ ws \in SeqsUpTo(SchemaRows, MaxInitRows)
    /\ wsBefore = ws
    /\ lastOp = NoOp
    /\ prevOp = NoOp
    /\ nops = 0
    /\ MultiIdle
    /\ AppIdle
    /\ SettingsIdle

DoEnsureSchema ==
    /\ nops < MaxOps
    /\ \E fail \in 0..3 :
          LET r == EnsureSchema(ws, fail)
          IN  /\ ws' = r.ws
              /\ lastOp' = [NoOp EXCEPT !.op = "ensure", !.raised = r.raised]
    /\ wsBefore' = ws
    /\ prevOp' = lastOp
    /\ nops' = nops + 1
    /\ UNCHANGED <<multiVars, appVars, settingsVars>>

SchemaNext == DoEnsureSchema \/ SheetCleared

SpecSchema == SchemaInit /\ [][SchemaNext]_vars

EnsureSucceeded(o) == o.op = "ensure" /\ ~o.raised

\* a row that records a component: a name and a quantity
IsDataRow(row) == Len(row) >= 2 /\ row # HeaderRow /\ row[2].t = "num"

\* every component row of sheet w is in sheet v, at its place
DataRowsKept(w, v) ==
    \A idx \in 1..Len(w) :
        IsDataRow(w[idx]) => idx <= Len(v) /\ v[idx] = w[idx]

\* the rows below the first are the same in w and v
RowsBelowHeaderKept(w, v) ==
    Len(v) = Len(w) /\ \A idx \in 2..Len(w) : v[idx] = w[idx]

\* C13: after ensure_schema() returns, the first row is the header; on a
\* non-empty sheet only the header was reset and every component row is
\* still there; on an empty sheet the header and the four default components
\* with quantity 0 were written; a second call changes nothing.
C13_EnsureSchemaKeepsData ==
    EnsureSucceeded(lastOp) =>
        /\ ws # <<>> /\ ~HeaderBad(ws[1])
        /\ wsBefore # <<>> =>
              RowsBelowHeaderKept(wsBefore, ws) /\ DataRowsKept(wsBefore, ws)
        /\ wsBefore = <<>> => ws = <<HeaderRow>> \o DefaultRows
        /\ EnsureSucceeded(prevOp) => ws = wsBefore

\* the same, for the component rows below the first row only
C13_RowsBelowFirstKept ==
    EnsureSucceeded(lastOp) =>
        /\ ws # <<>> /\ ~HeaderBad(ws[1])
        /\ wsBefore # <<>> => RowsBelowHeaderKept(wsBefore, ws)
        /\ wsBefore = <<>> => ws = <<HeaderRow>> \o DefaultRows
        /\ EnsureSucceeded(prevOp) => ws = wsBefore

----------------------------------------------------------------------------
(* Specification SpecUI: one TkDetailUI over a GoogleSheetInventoryRepo,    *)
(* its public show() and its button handlers called in any order.          *)

UiClasses == { <<"7805">>, <<"Modulo Rele 2">>, NoLabel }

\* quantities the sheet may hold for a component when the window is built;
\* other users of the spreadsheet type them in
SheetQuantities == -2..MaxQty

UiSheets ==
    { <<HeaderRow>>, <<HeaderRow, << <<"7805">>, Txt(<<"x">>) >> >> } \cup
    { <<HeaderRow, << <<"7805">>, Num(q) >> >> : q \in SheetQuantities }

\* texts of the quantity entry field
EntryTexts ==
    { <<>>, <<" ">>, <<"x">>, <<" ", "-", "1", " ">> } \cup
    { IntStr(n) : n \in -1..MaxQty }

UiInit ==
    /\ ws \in UiSheets
    /\ wsBefore = ws
    /\ lastOp = NoOp
    /\ prevOp = NoOp
    /\ nops = 0
    /\ AppIdle
    /\ MultiIdle
    /\ SettingsIdle

\* what a button handler leaves in uiOut
HandlerOut(op, entry, h) ==
    [uiOut EXCEPT !.op = op, !.calls = <<>>,
                  !.component = ui.current_component_name,
                  !.text = entry, !.reads = h.reads, !.writes = h.writes,
                  !.raised = h.raised, !.cb_raised = FALSE]

\* ui.show(class_name, conf, on_retake)
UiShow ==
    /\ nops < MaxUiOps
    /\ \E class_name \in UiClasses, on_retake \in Callbacks \cup {None},
          fail \in 0..2 :
          LET sh == Show(ui, ws, class_name, on_retake, fail)
          IN  /\ ui' = sh.ui
              /\ ws' = sh.ws
              /\ uiOut' = [NoUiOut EXCEPT !.op = "show", !.on_retake = on_retake,
                                          !.component = class_name]
    /\ wsBefore' = ws
    /\ nops' = nops + 1
    /\ UNCHANGED <<lastOp, prevOp, multiVars, settingsVars>>
    /\ UNCHANGED <<pc, error, envFile, settings, ctl, hist, lastCall>>

\* 'Volver a lectura'; the callback returns or raises
UiRetakeReading ==
    /\ nops < MaxUiOps
    /\ ui.window_shown
    /\ \E cb_raises \in BOOLEAN :
          LET d == RetakeReading(ui)
          IN  /\ ui' = d.ui
              /\ uiOut' = [HandlerOut("retake", <<>>, NoWrite(ws)) EXCEPT
                               !.calls = d.calls,
                               !.cb_raised = d.called /\ cb_raises]
    /\ wsBefore' = ws
    /\ nops' = nops + 1
    /\ UNCHANGED <<ws, lastOp, prevOp, multiVars, settingsVars>>
    /\ UNCHANGED <<pc, error, envFile, settings, ctl, hist, lastCall>>

\* the window is closed; the callback returns or raises
UiOnClose ==
    /\ nops < MaxUiOps
    /\ ui.window_shown
    /\ \E cb_raises \in BOOLEAN :
          LET d == OnClose(ui)
          IN  /\ ui' = d.ui
              /\ uiOut' = [HandlerOut("close", <<>>, NoWrite(ws)) EXCEPT
                               !.calls = d.calls,
                               !.cb_raised = d.called /\ cb_raises]
    /\ wsBefore' = ws
    /\ nops' = nops + 1
    /\ UNCHANGED <<ws, lastOp, prevOp, multiVars, settingsVars>>
    /\ UNCHANGED <<pc, error, envFile, settings, ctl, hist, lastCall>>

\* '+1'
UiIncreaseQty ==
    /\ nops < MaxUiOps
    /\ \E f1 \in 0..2, f2 \in 0..2, f3 \in 0..1 :
          LET h == IncreaseQty(ui, ws, f1, f2, f3)
          IN  ws' = h.ws /\ uiOut' = HandlerOut("inc", <<>>, h)
    /\ wsBefore' = ws
    /\ nops' = nops + 1
    /\ UNCHANGED <<ui, lastOp, prevOp, multiVars, settingsVars>>
    /\ UNCHANGED <<pc, error, envFile, settings, ctl, hist, lastCall>>

\* '-1'
UiDecreaseQty ==
    /\ nops < MaxUiOps
    /\ \E f1 \in 0..2, f2 \in 0..2, f3 \in 0..1 :
          LET h == DecreaseQty(ui, ws, f1, f2, f3)
          IN  ws' = h.ws /\ uiOut' = HandlerOut("dec", <<>>, h)
    /\ wsBefore' = ws
    /\ nops' = nops + 1
    /\ UNCHANGED <<ui, lastOp, prevOp, multiVars, settingsVars>>
    /\ UNCHANGED <<pc, error, envFile, settings, ctl, hist, lastCall>>

\* 'Aplicar'
UiApplyManualQty ==
    /\ nops < MaxUiOps
    /\ \E entry \in EntryTexts, f2 \in 0..2, f3 \in 0..1 :
          LET h == ApplyManualQty(ui, ws, entry, f2, f3)
          IN  ws' = h.ws /\ uiOut' = HandlerOut("apply", entry, h)
    /\ wsBefore' = ws
    /\ nops' = nops + 1
    /\ UNCHANGED <<ui, lastOp, prevOp, multiVars, settingsVars>>
    /\ UNCHANGED <<pc, error, envFile, settings, ctl, hist, lastCall>>

UiNext ==
    \/ UiShow
    \/ UiRetakeReading
    \/ UiOnClose
    \/ UiIncreaseQty
    \/ UiDecreaseQty
    \/ UiApplyManualQty

SpecUI == UiInit /\ [][UiNext]_vars

Adjusted(o) == o.op \in {"inc", "dec", "apply"}

\* C14: no operator adjustment passes a negative quantity to repo.write_qty;
\* '+1' passes the quantity just read plus 1, '-1' passes max(0, the quantity
\* just read minus 1), a negative manual entry is passed as 0; with no
\* component shown nothing is passed and the sheet is left alone.
C14_NoNegativeWrite ==
    Adjusted(uiOut) =>
        /\ \A i \in 1..Len(uiOut.writes) : uiOut.writes[i] >= 0
        /\ Len(uiOut.writes) <= 1
        /\ (uiOut.op = "inc" /\ uiOut.reads # <<>>) =>
              uiOut.writes = <<uiOut.reads[1] + 1>>
        /\ (uiOut.op = "dec" /\ uiOut.reads # <<>>) =>
              uiOut.writes = <<Max0(uiOut.reads[1] - 1)>>
        /\ (uiOut.op = "apply" /\ uiOut.component # NoLabel
               /\ ~IntCast(Strip(uiOut.text)).error
               /\ IntCast(Strip(uiOut.text)).value < 0) =>
              uiOut.writes = <<0>>
        /\ uiOut.component = NoLabel => uiOut.writes = <<>> /\ ws = wsBefore

\* the same, for adjustments that read a quantity of at least -1
C14_NoNegativeWriteOnSaneSheet ==
    (Adjusted(uiOut) /\ \A i \in 1..Len(uiOut.reads) : uiOut.reads[i] >= -1) =>
        /\ \A i \in 1..Len(uiOut.writes) : uiOut.writes[i] >= 0
        /\ Len(uiOut.writes) <= 1
        /\ (uiOut.op = "inc" /\ uiOut.reads # <<>>) =>
              uiOut.writes = <<uiOut.reads[1] + 1>>
        /\ (uiOut.op = "dec" /\ uiOut.reads # <<>>) =>
              uiOut.writes = <<Max0(uiOut.reads[1] - 1)>>
        /\ (uiOut.op = "apply" /\ uiOut.component # NoLabel
               /\ ~IntCast(Strip(uiOut.text)).error
               /\ IntCast(Strip(uiOut.text)).value < 0) =>
              uiOut.writes = <<0>>
        /\ uiOut.component = NoLabel => uiOut.writes = <<>> /\ ws = wsBefore

\* a dismissal under SpecUI: whichever callable the most recent show() was
\* given, and whether it returns or raises, it was invoked once and the
\* window is hidden; without a callable nothing was invoked
DismissalInvokesLastCallback ==
    uiOut.op \in {"retake", "close"} =>
        /\ uiOut.calls = IF Callable(uiOut.on_retake)
                         THEN <<uiOut.on_retake>> ELSE <<>>
        /\ ~ui.window_shown
        /\ ~uiOut.raised

====
